---- MODULE Spec2Model ----
(***************************************************************************)
(* Grouped aggregation (accumarray): the numpy backend                     *)
(* (aggregate/aggregate_numpy.py) and the weave single-pass C backend      *)
(* (aggregate/aggregate_weave.py).                                         *)
(*                                                                         *)
(* A call is one state transition: Init draws the arguments of a call,     *)
(* AggregateNumpy / AggregateWeave run the whole call and record what it   *)
(* returned or raised.                                                     *)
(*                                                                         *)
(* Numbers are exact rationals [n, d] (d > 0, lowest terms); d = 0 is the  *)
(* float NaN (n = 0) or +-inf (n = +-1).  A square root is kept symbolic   *)
(* as [n, d, r |-> 2].  A sub-array (array/sort/rsort) is [s |-> seq].     *)
(* A complex element is [re, im].  An ndarray of values is                  *)
(* [ndim, data, dtype]; a 0-d array holds one element.  A function name    *)
(* is the sequence of its characters; a callable is <<"<fn>", name>>.      *)
(*                                                                         *)
(* StepCount / StepIndices run the helpers of the contiguous case,         *)
(* step_count and step_indices of aggregate_weave.py.                      *)
(***************************************************************************)
EXTENDS Integers, Sequences, FiniteSets, TLC

VARIABLES backend, group_idx, ndim_idx, a, func, size, fill_value, order, pc, result

vars == <<backend, group_idx, ndim_idx, a, func, size, fill_value, order, pc, result>>

(***************************************************************************)
(* Bounds of the model.                                                    *)
(***************************************************************************)
MaxLen == 3

(***************************************************************************)
(* Float arithmetic on the values the model uses (exact where the floats   *)
(* are exact).                                                             *)
(***************************************************************************)
Abs(x) == IF x < 0 THEN -x ELSE x

RECURSIVE Gcd(_, _)
Gcd(x, y) == IF y = 0 THEN x ELSE Gcd(y, x % y)

Sign(x) == IF x > 0 THEN 1 ELSE IF x < 0 THEN -1 ELSE 0

Rat(n, d) ==
    IF d = 0 THEN [n |-> Sign(n), d |-> 0]
    ELSE LET g == Gcd(Abs(n), Abs(d))
             s == IF d < 0 THEN -1 ELSE 1
         IN  [n |-> s * (n \div g), d |-> s * (d \div g)]

IntV(k) == [n |-> k, d |-> 1]

NaN == [n |-> 0, d |-> 0]

IsNaN(x) == x.d = 0 /\ x.n = 0

IsFinite(x) == x.d # 0

Neg(x) == [n |-> -x.n, d |-> x.d]

Add(x, y) ==
    IF IsNaN(x) \/ IsNaN(y) THEN NaN
    ELSE IF x.d = 0 /\ y.d = 0 THEN (IF x.n = y.n THEN x ELSE NaN)
    ELSE IF x.d = 0 THEN x
    ELSE IF y.d = 0 THEN y
    ELSE Rat(x.n * y.d + y.n * x.d, x.d * y.d)

Sub(x, y) == Add(x, Neg(y))

Mul(x, y) ==
    IF IsNaN(x) \/ IsNaN(y) THEN NaN
    ELSE IF x.d = 0 \/ y.d = 0
         THEN (IF x.n = 0 \/ y.n = 0 THEN NaN
               ELSE [n |-> Sign(x.n) * Sign(y.n), d |-> 0])
    ELSE Rat(x.n * y.n, x.d * y.d)

Div(x, y) ==
    IF IsNaN(x) \/ IsNaN(y) THEN NaN
    ELSE IF y.d = 0 THEN (IF x.d = 0 THEN NaN ELSE IntV(0))
    ELSE IF y.n = 0 THEN (IF x.n = 0 THEN NaN ELSE [n |-> Sign(x.n), d |-> 0])
    ELSE IF x.d = 0 THEN [n |-> Sign(x.n) * Sign(y.n), d |-> 0]
    ELSE Rat(x.n * y.d, x.d * y.n)

\* x < y as floats compare: false when either is NaN.
Lt(x, y) ==
    IF IsNaN(x) \/ IsNaN(y) THEN FALSE
    ELSE IF x.d = 0 /\ y.d = 0 THEN x.n < y.n
    ELSE IF x.d = 0 THEN x.n < 0
    ELSE IF y.d = 0 THEN y.n > 0
    ELSE x.n * y.d < y.n * x.d

\* np.minimum / np.maximum: NaN propagates.
Minimum(x, y) == IF IsNaN(x) \/ IsNaN(y) THEN NaN ELSE IF Lt(y, x) THEN y ELSE x

Maximum(x, y) == IF IsNaN(x) \/ IsNaN(y) THEN NaN ELSE IF Lt(x, y) THEN y ELSE x

\* np.sqrt / C sqrt: NaN for NaN and for a negative argument.
Sqrt(x) ==
    IF IsNaN(x) \/ Lt(x, IntV(0)) THEN NaN
    ELSE IF x.n = 0 \/ x.d = 0 THEN x
    ELSE [n |-> x.n, d |-> x.d, r |-> 2]

\* truth value of a number (NaN is true).
Truthy(x) == x # IntV(0)

BoolV(b) == IF b THEN IntV(1) ELSE IntV(0)

(***************************************************************************)
(* ndarrays of values.                                                     *)
(***************************************************************************)
\* a complex element is [re, im]; every other element is a real number
IsComplex(x) == "re" \in DOMAIN x

\* the dtype np.asanyarray(a) gives the array: that of its elements
DTypeOf(data) ==
    IF \E i \in 1..Len(data) : IsComplex(data[i]) THEN "complex128" ELSE "float64"

Arr1(data) == [ndim |-> 1, data |-> data, dtype |-> DTypeOf(data)]

Arr0(x) == [ndim |-> 0, data |-> <<x>>, dtype |-> DTypeOf(<<x>>)]

Full(n, x) == [i \in 1..n |-> x]

Reverse(s) == [i \in 1..Len(s) |-> s[Len(s) + 1 - i]]

Range(s) == {s[i] : i \in 1..Len(s)}

SeqMax(s) == CHOOSE m \in Range(s) : \A x \in Range(s) : x <= m

\* s[mask]: the elements whose mask entry is true, in order.
Compress(s, mask) ==
    LET f[i \in 0..Len(s)] ==
            IF i = 0 THEN <<>>
            ELSE IF mask[i] THEN Append(f[i - 1], s[i]) ELSE f[i - 1]
    IN  f[Len(s)]

\* a 0-d array broadcast against an index array of length L.
Broadcast(arr, L) == IF arr.ndim = 0 THEN Full(L, arr.data[1]) ELSE arr.data

\* ret[idx] = vals, element by element in order: the last write to a slot stays.
ScatterAssign(ret, idx, vals) ==
    LET f[i \in 0..Len(idx)] ==
            IF i = 0 THEN ret ELSE [f[i - 1] EXCEPT ![idx[i] + 1] = vals[i]]
    IN  f[Len(idx)]

\* the binary ufuncs the reductions use
Ufunc(op, x, y) ==
    CASE op = "add" -> Add(x, y)
      [] op = "multiply" -> Mul(x, y)
      [] op = "minimum" -> Minimum(x, y)
      [] op = "maximum" -> Maximum(x, y)

\* np.<ufunc>.at(ret, idx, vals): unbuffered in-place ret[idx[i]] = op(ret[idx[i]], vals[i]).
UfuncAt(op, ret, idx, vals) ==
    LET f[i \in 0..Len(idx)] ==
            IF i = 0 THEN ret ELSE [f[i - 1] EXCEPT ![idx[i] + 1] = Ufunc(op, @, vals[i])]
    IN  f[Len(idx)]

Max2(x, y) == IF x > y THEN x ELSE y

\* np.bincount(idx, weights, minlength)
Bincount(idx, weights, minlength) ==
    UfuncAt("add",
            Full(IF Len(idx) = 0 THEN minlength ELSE Max2(SeqMax(idx) + 1, minlength), IntV(0)),
            idx, weights)

BincountCounts(idx, minlength) == Bincount(idx, Full(Len(idx), IntV(1)), minlength)

\* np.cumsum over integer-valued counts, as plain integers
Cumsum(counts) ==
    LET f[i \in 0..Len(counts)] ==
            IF i = 0 THEN <<>>
            ELSE Append(f[i - 1], (IF i = 1 THEN 0 ELSE f[i - 1][i - 1]) + counts[i].n)
    IN  f[Len(counts)]

\* np.split(s, cuts): the pieces s[0:c1], s[c1:c2], ..., s[ck:]
Split(s, cuts) ==
    [k \in 1..(Len(cuts) + 1) |->
        SubSeq(s, (IF k = 1 THEN 0 ELSE cuts[k - 1]) + 1,
                  IF k = Len(cuts) + 1 THEN Len(s) ELSE cuts[k])]

(***************************************************************************)
(* Sorting.  numpy's sorts of short arrays are insertion sorts; position   *)
(* lists are 1-based.                                                      *)
(***************************************************************************)
IntLess(x, y) == x < y

IntLeq(x, y) == x <= y

\* a real x promoted to complex: x + 0j
ComplexOf(x) == IF IsComplex(x) THEN x ELSE [re |-> x, im |-> IntV(0)]

\* g + (0 + sign j) * z for a complex z:
\* (0 + sign j) * (re + im j) = (0*re - sign*im) + (0*im + sign*re) j
ComplexAffine(g, z, sign) ==
    [re |-> Add(IntV(g), Sub(Mul(IntV(0), z.re), Mul(IntV(sign), z.im))),
     im |-> Add(Mul(IntV(0), z.im), Mul(IntV(sign), z.re))]

\* group_idx + 1j * a (sign = 1) or group_idx + -1j * a (sign = -1), as complex
\* floats [re, im]; for a real x this is (0*x - sign*0) + (0*0 + sign*x) j, so a
\* NaN value makes the real part NaN as well.
ComplexKey(g, x, sign) == ComplexAffine(g, ComplexOf(x), sign)

\* numpy's order of complex numbers: by real part, then imaginary part, NaNs last.
ComplexLess(x, y) ==
    IF Lt(x.re, y.re) THEN ~IsNaN(x.im) \/ IsNaN(y.im)
    ELSE IF Lt(y.re, x.re) THEN IsNaN(y.im) /\ ~IsNaN(x.im)
    ELSE IF (~IsNaN(x.re) /\ ~IsNaN(y.re) /\ x.re = y.re) \/ (IsNaN(x.re) /\ IsNaN(y.re))
         THEN Lt(x.im, y.im) \/ (IsNaN(y.im) /\ ~IsNaN(x.im))
    ELSE IsNaN(y.re)

\* the order a sort of the given kind of keys goes by
KeyLess(kind, x, y) ==
    CASE kind = "int" -> IntLess(x, y)
      [] kind = "int, ties reversed" -> IntLeq(x, y)
      [] kind = "complex" -> ComplexLess(x, y)

\* where key i goes in the sorted positions so far: after the last key that is
\* not greater
InsertAt(kind, keys, sorted, i) ==
    LET stop == {q \in 1..Len(sorted) : ~KeyLess(kind, keys[i], keys[sorted[q]])}
        p == IF stop = {} THEN 0 ELSE CHOOSE q \in stop : \A r \in stop : r <= q
    IN  SubSeq(sorted, 1, p) \o <<i>> \o SubSeq(sorted, p + 1, Len(sorted))

ArgsortBy(kind, keys) ==
    LET f[i \in 0..Len(keys)] == IF i = 0 THEN <<>> ELSE InsertAt(kind, keys, f[i - 1], i)
    IN  f[Len(keys)]

Take(s, positions) == [i \in 1..Len(positions) |-> s[positions[i]]]

(***************************************************************************)
(* Results of a call.                                                      *)
(***************************************************************************)
Ok(ret) == [err |-> "", ret |-> ret, shape |-> <<Len(ret)>>, calls |-> <<>>]

Raise(e) == [err |-> e, ret |-> <<>>, shape |-> <<>>, calls |-> <<>>]

IsScalar(fv) == "n" \in DOMAIN fv

SubArr(s) == [s |-> s]

(***************************************************************************)
(* utils.py                                                                *)
(***************************************************************************)
\* any elements of ret not indexed by idx are set to fill_value
fill_untouched(idx, ret, fv) ==
    [j \in 1..Len(ret) |-> IF (j - 1) \in Range(idx) THEN ret[j] ELSE fv]

check_boolean(fv) == IsScalar(fv) /\ fv \in {IntV(0), IntV(1)}

no_separate_nan_version ==
    { <<"f","i","r","s","t">>, <<"l","a","s","t">>, <<"a","l","l">>, <<"a","n","y">>,
      <<"a","r","r","a","y">>, <<"s","o","r","t">>, <<"r","s","o","r","t">>,
      <<"a","l","l","n","a","n">>, <<"a","n","y","n","a","n">> }

(***************************************************************************)
(* aggregate_numpy.py: the reduction library.  Each takes the flat group   *)
(* index gidx (0-based ids), the value array arr, the output size n and    *)
(* the fill value fv.  np.finfo(a.dtype).max / .min are stood for by dmax  *)
(* and dmin, beyond every value of the model.                              *)
(***************************************************************************)
dmax == 1000

dmin == -1000

FillValueError == "ValueError: fill_value must be scalar or an empty sequence"

\* ret[idx] = x
AssignConst(ret, idx, x) == ScatterAssign(ret, idx, Full(Len(idx), x))

\* sums / counts, element by element
DivEach(sums, counts) == [j \in 1..Len(sums) |-> Div(sums[j], counts[j])]

\* ret[counts == 0] = fill_value, done when fill_value is not NaN
FillWhereZero(ret, counts, fv) ==
    IF ~IsNaN(fv)
    THEN [j \in 1..Len(ret) |-> IF counts[j] = IntV(0) THEN fv ELSE ret[j]]
    ELSE ret

\* if np.isscalar(fill_value): fill_untouched(group_idx, ret, fill_value)
FillGroups(ret, gidx, fv) == IF IsScalar(fv) THEN fill_untouched(gidx, ret, fv) ELSE ret

SubArrs(pieces) == [g \in 1..Len(pieces) |-> SubArr(pieces[g])]

\* np.split(a[order_group_idx], np.cumsum(counts)[:-1]) into an object array
SplitGroups(order_group_idx, data, counts, gidx, fv) ==
    IF \E i \in 1..Len(order_group_idx) : order_group_idx[i] > Len(data)
    THEN Raise("IndexError: index out of bounds")
    ELSE Ok(FillGroups(SubArrs(Split(Take(data, order_group_idx),
                                     SubSeq(Cumsum(counts), 1, Len(counts) - 1))),
                       gidx, fv))

SortKeys(gidx, bc, sign) == [i \in 1..Len(gidx) |-> ComplexKey(gidx[i], bc[i], sign)]

\* type(a.dtype): the dtype of an ndarray is an object of class numpy.dtype,
\* whatever the element type
TypeOfDType(arr) == "numpy.dtype"

\* isinstance(obj, np.complex) for an object of class cls: np.complex is the
\* Python type complex
isinstance_complex(cls) == cls = "complex"

ComplexError == "NotImplementedError: a must be real, could use np.lexsort or sort with recarray for complex."

_sort_impl(gidx, arr, n, fv, reversed_) ==
    IF isinstance_complex(TypeOfDType(arr)) THEN Raise(ComplexError)
    ELSE IF ~(IsScalar(fv) \/ Len(fv.s) = 0) THEN Raise(FillValueError)
    ELSE SplitGroups(ArgsortBy("complex",
                               SortKeys(gidx, Broadcast(arr, Len(gidx)),
                                        IF reversed_ THEN -1 ELSE 1)),
                     IF arr.ndim = 0 THEN Full(n, arr.data[1]) ELSE arr.data,
                     BincountCounts(gidx, n), gidx, fv)

_sort(gidx, arr, n, fv) == _sort_impl(gidx, arr, n, fv, FALSE)

_rsort(gidx, arr, n, fv) == _sort_impl(gidx, arr, n, fv, TRUE)

\* an argsort that is not stable: equal keys come out in reverse
argsort_unstable(keys) == ArgsortBy("int, ties reversed", keys)

\* np.argsort(group_idx, kind='mergesort'): stable
argsort_mergesort(keys) == ArgsortBy("int", keys)

_array(gidx, arr, n, fv) ==
    IF ~(IsScalar(fv) \/ Len(fv.s) = 0) THEN Raise(FillValueError)
    ELSE IF arr.ndim = 0 THEN Raise("IndexError: too many indices for array")
    ELSE SplitGroups(argsort_mergesort(gidx), arr.data, BincountCounts(gidx, n), gidx, fv)

\* the scalar-a branch of _sum: counts, times a when a != 1
ScaleCounts(c, x) == IF x # IntV(1) THEN [j \in 1..Len(c) |-> Mul(c[j], x)] ELSE c

SumFill(ret, gidx, fv) == IF fv # IntV(0) THEN fill_untouched(gidx, ret, fv) ELSE ret

_sum(gidx, arr, n, fv) ==
    Ok(SumFill(IF arr.ndim = 0
               THEN ScaleCounts(BincountCounts(gidx, n), arr.data[1])
               ELSE Bincount(gidx, arr.data, n),
               gidx, fv))

_last(gidx, arr, n, fv) ==
    Ok(ScatterAssign(IF fv = IntV(0) THEN Full(n, IntV(0)) ELSE Full(n, fv),
                     gidx, Broadcast(arr, Len(gidx))))

\* a first that scatters in forward order
_first_forward(gidx, arr, n, fv) ==
    IF arr.ndim = 0 THEN Raise("IndexError: too many indices for array")
    ELSE Ok(ScatterAssign(IF fv = IntV(0) THEN Full(n, IntV(0)) ELSE Full(n, fv),
                          gidx, arr.data))

_first(gidx, arr, n, fv) ==
    IF arr.ndim = 0 THEN Raise("IndexError: too many indices for array")
    ELSE Ok(ScatterAssign(IF fv = IntV(0) THEN Full(n, IntV(0)) ELSE Full(n, fv),
                          Reverse(gidx), Reverse(arr.data)))

_prod(gidx, arr, n, fv) ==
    Ok(UfuncAt("multiply",
               IF fv # IntV(1) THEN AssignConst(Full(n, fv), gidx, IntV(1)) ELSE Full(n, fv),
               gidx, Broadcast(arr, Len(gidx))))

_all(gidx, arr, n, fv) ==
    IF ~check_boolean(fv) THEN Raise("ValueError: fill_value must be boolean")
    ELSE IF arr.ndim = 0 THEN Raise("ValueError: condition must be a 1-d array")
    ELSE Ok(AssignConst(IF Truthy(fv) THEN Full(n, fv)
                        ELSE AssignConst(Full(n, fv), gidx, IntV(1)),
                        Compress(gidx, [i \in 1..Len(gidx) |-> ~Truthy(arr.data[i])]),
                        IntV(0)))

_any(gidx, arr, n, fv) ==
    IF ~check_boolean(fv) THEN Raise("ValueError: fill_value must be boolean")
    ELSE IF arr.ndim = 0 THEN Raise("ValueError: condition must be a 1-d array")
    ELSE Ok(AssignConst(IF Truthy(fv) THEN AssignConst(Full(n, fv), gidx, IntV(0))
                        ELSE Full(n, fv),
                        Compress(gidx, [i \in 1..Len(gidx) |-> Truthy(arr.data[i])]),
                        IntV(1)))

_min(gidx, arr, n, fv) ==
    Ok(UfuncAt("minimum",
               IF fv # IntV(dmax) THEN AssignConst(Full(n, fv), gidx, IntV(dmax))
               ELSE Full(n, fv),
               gidx, Broadcast(arr, Len(gidx))))

_max(gidx, arr, n, fv) ==
    Ok(UfuncAt("maximum",
               IF fv # IntV(dmin) THEN AssignConst(Full(n, fv), gidx, IntV(dmin))
               ELSE Full(n, fv),
               gidx, Broadcast(arr, Len(gidx))))

_mean(gidx, arr, n, fv) ==
    IF arr.ndim = 0 THEN Raise("ValueError: cannot take mean with scalar a")
    ELSE Ok(FillWhereZero(DivEach(Bincount(gidx, arr.data, n), BincountCounts(gidx, n)),
                          BincountCounts(gidx, n), fv))

\* (a - means[group_idx]) ** 2
SqDevs(data, gidx, means) ==
    [i \in 1..Len(gidx) |-> Mul(Sub(data[i], means[gidx[i] + 1]),
                                Sub(data[i], means[gidx[i] + 1]))]

SqrtEach(ret, sqrt) == IF sqrt THEN [j \in 1..Len(ret) |-> Sqrt(ret[j])] ELSE ret

VarOf(gidx, data, counts, sums, n, fv, sqrt) ==
    Ok(FillWhereZero(
           SqrtEach(DivEach(Bincount(gidx, SqDevs(data, gidx, DivEach(sums, counts)), n),
                            counts),
                    sqrt),
           counts, fv))

_var_impl(gidx, arr, n, fv, sqrt) ==
    IF arr.ndim = 0 THEN Raise("ValueError: cannot take variance with scalar a")
    ELSE VarOf(gidx, arr.data, BincountCounts(gidx, n), Bincount(gidx, arr.data, n),
               n, fv, sqrt)

_var(gidx, arr, n, fv) == _var_impl(gidx, arr, n, fv, FALSE)

_std(gidx, arr, n, fv) == _var_impl(gidx, arr, n, fv, TRUE)

\* np.isnan(arr), as an array of booleans
IsNanArr(arr) ==
    [ndim |-> arr.ndim, data |-> [i \in 1..Len(arr.data) |-> BoolV(IsNaN(arr.data[i]))],
     dtype |-> "bool"]

_allnan(gidx, arr, n, fv) == _all(gidx, IsNanArr(arr), n, fv)

_anynan(gidx, arr, n, fv) == _any(gidx, IsNanArr(arr), n, fv)

(***************************************************************************)
(* Function names and callables.                                           *)
(***************************************************************************)
S_sum == <<"s","u","m">>

S_prod == <<"p","r","o","d">>

S_min == <<"m","i","n">>

S_max == <<"m","a","x">>

S_all == <<"a","l","l">>

S_any == <<"a","n","y">>

S_first == <<"f","i","r","s","t">>

S_last == <<"l","a","s","t">>

S_mean == <<"m","e","a","n">>

S_var == <<"v","a","r">>

S_std == <<"s","t","d">>

S_allnan == <<"a","l","l","n","a","n">>

S_anynan == <<"a","n","y","n","a","n">>

S_array == <<"a","r","r","a","y">>

S_sort == <<"s","o","r","t">>

S_rsort == <<"r","s","o","r","t">>

S_nan == <<"n","a","n">>

\* aliases of the docstring
S_plus == <<"p","l","u","s">>

S_amin == <<"a","m","i","n">>

S_amax == <<"a","m","a","x">>

S_product == <<"p","r","o","d","u","c","t">>

S_or == <<"o","r">>

S_and == <<"a","n","d">>

S_sorted == <<"s","o","r","t","e","d">>

S_split == <<"s","p","l","i","t">>

\* a name that is in no table
S_median == <<"m","e","d","i","a","n">>

Fn(name) == <<"<fn>", name>>

NpSum == Fn("np.sum")

NpMean == Fn("np.mean")

NpNanmax == Fn("np.nanmax")

func_arbitrary == Fn("func_arbitrary")

func_preserve_order == Fn("func_preserve_order")

\* isinstance(func, basestring)
IsString(f) == ~(Len(f) = 2 /\ f[1] = "<fn>")

UpperAlpha == <<"A","B","C","D","E","F","G","H","I","J","K","L","M",
                "N","O","P","Q","R","S","T","U","V","W","X","Y","Z">>

LowerAlpha == <<"a","b","c","d","e","f","g","h","i","j","k","l","m",
                "n","o","p","q","r","s","t","u","v","w","x","y","z">>

\* str.lower()
Lower(f) ==
    [i \in 1..Len(f) |->
        IF \E k \in 1..26 : UpperAlpha[k] = f[i]
        THEN LowerAlpha[CHOOSE k \in 1..26 : UpperAlpha[k] = f[i]]
        ELSE f[i]]

\* str.startswith('nan')
StartsWithNan(f) == Len(f) >= 3 /\ SubSeq(f, 1, 3) = S_nan

\* func[3:]
Strip3(f) == SubSeq(f, 4, Len(f))

\* the aliasing table of utils.py: the aliases the docstring lists, and the numpy
\* functions that stand for a name
aliasing ==
    (S_plus :> S_sum) @@ (S_amin :> S_min) @@ (S_amax :> S_max) @@ (S_product :> S_prod)
    @@ (S_or :> S_any) @@ (S_and :> S_all) @@ (S_sorted :> S_sort) @@ (S_split :> S_array)
    @@ (NpSum :> S_sum) @@ (NpMean :> S_mean) @@ (NpNanmax :> (S_nan \o S_max))

\* aliasing.get(f, f)
AliasGet(f) == IF f \in DOMAIN aliasing THEN aliasing[f] ELSE f

\* x ** k for k >= 1
Pow(x, k) ==
    LET f[i \in 1..k] == IF i = 1 THEN x ELSE Mul(f[i - 1], x) IN f[k]

\* the callables of tests/test_compare.py, applied to one group
CallFunc(f, g) ==
    LET acc[i \in 0..Len(g)] ==
            IF i = 0 THEN IntV(0)
            ELSE Add(acc[i - 1], IF f = func_preserve_order THEN Pow(g[i], i) ELSE Mul(g[i], g[i]))
    IN  acc[Len(g)]

\* the loop of _generic_callable over the groups: ret[i] = func(grp) for every
\* group that has members; calls lists the invocations of func, each
\* <<position in the output, argument>>.
ApplyGroups(groups, n, fv, f) ==
    LET loop[ii \in 0..Len(groups)] ==
            IF ii = 0 THEN [ret |-> Full(n, fv), calls |-> <<>>]
            ELSE IF Len(groups[ii].s) > 0
                 THEN [ret |-> [loop[ii - 1].ret EXCEPT ![ii] = CallFunc(f, groups[ii].s)],
                       calls |-> Append(loop[ii - 1].calls, <<ii - 1, groups[ii].s>>)]
                 ELSE loop[ii - 1]
    IN  loop[Len(groups)]

CallResult(done) ==
    [err |-> "", ret |-> done.ret, shape |-> <<Len(done.ret)>>, calls |-> done.calls]

GroupsThen(groups, n, fv, f) ==
    IF groups.err # "" THEN groups ELSE CallResult(ApplyGroups(groups.ret, n, fv, f))

\* groups a by inds, and then applies func to each group in turn
_generic_callable(gidx, arr, n, fv, f) ==
    GroupsThen(_array(gidx, arr, n, SubArr(<<>>)), n, fv, f)

_impl_names == {S_min, S_max, S_sum, S_prod, S_last, S_first, S_all, S_any, S_mean, S_std,
                S_var, S_anynan, S_allnan, S_sort, S_rsort, S_array}

_impl_dict(name, gidx, arr, n, fv) ==
    CASE name = S_min -> _min(gidx, arr, n, fv)
      [] name = S_max -> _max(gidx, arr, n, fv)
      [] name = S_sum -> _sum(gidx, arr, n, fv)
      [] name = S_prod -> _prod(gidx, arr, n, fv)
      [] name = S_last -> _last(gidx, arr, n, fv)
      [] name = S_first -> _first(gidx, arr, n, fv)
      [] name = S_all -> _all(gidx, arr, n, fv)
      [] name = S_any -> _any(gidx, arr, n, fv)
      [] name = S_mean -> _mean(gidx, arr, n, fv)
      [] name = S_std -> _std(gidx, arr, n, fv)
      [] name = S_var -> _var(gidx, arr, n, fv)
      [] name = S_anynan -> _anynan(gidx, arr, n, fv)
      [] name = S_allnan -> _allnan(gidx, arr, n, fv)
      [] name = S_sort -> _sort(gidx, arr, n, fv)
      [] name = S_rsort -> _rsort(gidx, arr, n, fv)
      [] name = S_array -> _array(gidx, arr, n, fv)

(***************************************************************************)
(* aggregate_numpy.py: aggregate.  The size argument is NoSize (None),     *)
(* [scalar |-> n] or [seq |-> dims].                                       *)
(***************************************************************************)
NoSize == [none |-> TRUE]

ScalarSize(n) == [scalar |-> n]

SeqSize(dims) == [seq |-> dims]

IsNone(sz) == "none" \in DOMAIN sz

\* np.isscalar(size)
IsScalarSize(sz) == "scalar" \in DOMAIN sz

\* np.prod
Prod(dims) ==
    LET f[i \in 0..Len(dims)] == IF i = 0 THEN 1 ELSE f[i - 1] * dims[i] IN f[Len(dims)]

\* strides with the two orders taken for each other
Strides_Swapped(dims, ord) ==
    [d \in 1..Len(dims) |->
        IF ord = "F" THEN Prod(SubSeq(dims, d + 1, Len(dims)))
        ELSE Prod(SubSeq(dims, 1, d - 1))]

\* the strides np.ravel_multi_index uses: "C" has the last dimension fastest,
\* "F" the first.
Strides(dims, ord) ==
    [d \in 1..Len(dims) |->
        IF ord = "C" THEN Prod(SubSeq(dims, d + 1, Len(dims)))
        ELSE Prod(SubSeq(dims, 1, d - 1))]

\* np.ravel_multi_index(tuple(rows), dims, order, mode='raise')
RavelMultiIndex(rows, dims, ord) ==
    LET D == Len(rows)
        L == Len(rows[1])
        st == Strides(dims, ord)
        flat(i) == LET f[d \in 0..D] == IF d = 0 THEN 0 ELSE f[d - 1] + rows[d][i] * st[d]
                   IN  f[D]
    IN  IF \E d \in 1..D : \E i \in 1..L : rows[d][i] < 0 \/ rows[d][i] >= dims[d]
        THEN [err |-> "ValueError: invalid entry in coordinates array", flat |-> <<>>]
        ELSE [err |-> "", flat |-> [i \in 1..L |-> flat(i)]]

\* the multi-index of flat position q (0-based) in an array of shape dims, by
\* repeated division, fastest dimension first
Unravel(q, dims, ord) ==
    LET D == Len(dims)
        at(j) == IF ord = "C" THEN D + 1 - j ELSE j
        rest[j \in 0..D] == IF j = 0 THEN q ELSE rest[j - 1] \div dims[at(j)]
        digit[j \in 1..D] == rest[j - 1] % dims[at(j)]
    IN  [d \in 1..D |-> digit[at(d)]]

\* ret.reshape(dims, order=ord): the array indexed by 0-based multi-indices
Reshape(flat, dims, ord) ==
    LET n == Len(flat)
    IN  [k \in {Unravel(q, dims, ord) : q \in 0..(n - 1)} |->
            flat[1 + CHOOSE q \in 0..(n - 1) : Unravel(q, dims, ord) = k]]

\* what the checks of lines 280-308 hand on: a rejection (kind says what it is
\* about) or the flat index, the output dimensions and the flat size
ChecksFail(kind, e) == [err |-> e, kind |-> kind, gidx |-> <<>>, dims |-> <<>>, size_n |-> 0]

ChecksPass(flat, dims, n) == [err |-> "", kind |-> "", gidx |-> flat, dims |-> dims, size_n |-> n]

\* lines 304-308: the flat index of a multi-key group_idx
RavelChecked(rv, dims) ==
    IF rv.err # "" THEN ChecksFail("index", rv.err) ELSE ChecksPass(rv.flat, dims, Prod(dims))

\* a size that lets the index size itself through
TooLarge_Beyond(gi, n) == \E i \in 1..Len(gi) : gi[i] > n

\* np.any(group_idx > size - 1)
TooLarge(gi, n) == \E i \in 1..Len(gi) : gi[i] > n - 1

\* lines 280-308: the checks of group_idx, a and size, and the flat index
input_checks(gi, nd, arr, sz, ord) ==
    IF nd = 1
    THEN IF ~(arr.ndim = 0 \/ Len(arr.data) = Len(gi))
            THEN ChecksFail("shape", "ValueError: group_idx and a must be of the same length, or a can be scalar")
         ELSE IF \E i \in 1..Len(gi) : gi[i] < 0
            THEN ChecksFail("index", "ValueError: Negative indices not supported.")
         ELSE IF ~IsNone(sz)
            THEN IF ~IsScalarSize(sz)
                    THEN ChecksFail("size", "ValueError: Output size must be scalar or None")
                 ELSE IF TooLarge(gi, sz.scalar)
                    THEN ChecksFail("index", "ValueError: One or more indices are too large for size.")
                 ELSE ChecksPass(gi, <<sz.scalar>>, sz.scalar)
         ELSE IF Len(gi) = 0
            THEN ChecksFail("empty", "ValueError: zero-size array to reduction operation maximum")
         ELSE ChecksPass(gi, <<SeqMax(gi) + 1>>, SeqMax(gi) + 1)
    ELSE IF ~(arr.ndim = 0 \/ Len(arr.data) = Len(gi[1]))
            THEN ChecksFail("shape", "ValueError: a and group_idx differ in length")
         ELSE IF ~IsNone(sz) /\ IsScalarSize(sz)
            THEN ChecksFail("size", "ValueError: Output size must be None or 1d sequence")
         ELSE IF ~IsNone(sz) /\ Len(sz.seq) # Len(gi)
            THEN ChecksFail("size", "ValueError: sizes given do not match the output dimensions")
         ELSE IF IsNone(sz) /\ Len(gi[1]) = 0
            THEN ChecksFail("empty", "ValueError: zero-size array to reduction operation maximum")
         ELSE IF IsNone(sz)
            THEN RavelChecked(RavelMultiIndex(gi, [d \in 1..Len(gi) |-> SeqMax(gi[d]) + 1], ord),
                              [d \in 1..Len(gi) |-> SeqMax(gi[d]) + 1])
         ELSE RavelChecked(RavelMultiIndex(gi, sz.seq, ord), sz.seq)

NoNanError == "ValueError: does not have a nan- version."

\* a mask that keeps every pair
NotNan_KeepAll(arr) == [i \in 1..Len(arr.data) |-> TRUE]

\* good = ~np.isnan(a)
NotNan(arr) == [i \in 1..Len(arr.data) |-> ~IsNaN(arr.data[i])]

\* lines 324-340: the reduction named base, on the pairs whose value is not NaN
\* when the name had the nan prefix
run_named(nans, base, gidx, arr, size_n, fv) ==
    IF nans /\ base \in no_separate_nan_version THEN Raise(NoNanError)
    ELSE IF nans /\ arr.ndim = 0
        THEN Raise("ValueError: nan- version not supported for scalar input.")
    ELSE IF base \notin _impl_names
        THEN Raise("NotImplementedError: not found in list of available functions.")
    ELSE _impl_dict(base,
                    IF nans THEN Compress(gidx, NotNan(arr)) ELSE gidx,
                    IF nans THEN Arr1(Compress(arr.data, NotNan(arr))) ELSE arr,
                    size_n, fv)

\* lines 318-323: func.lower(), the nan prefix and the alias of the rest
run_string(low, gidx, arr, size_n, fv) ==
    run_named(StartsWithNan(low),
              AliasGet(IF StartsWithNan(low) THEN Strip3(low) ELSE low),
              gidx, arr, size_n, fv)

\* lines 310-340: resolve func and run the reduction on the flat index
run_func(gidx, arr, size_n, f, fv) ==
    IF ~IsString(f)
    THEN IF ~IsString(AliasGet(f)) THEN _generic_callable(gidx, arr, size_n, fv, AliasGet(f))
         ELSE run_string(Lower(AliasGet(f)), gidx, arr, size_n, fv)
    ELSE run_string(Lower(f), gidx, arr, size_n, fv)

\* lines 343-344: the result in the shape of the output
np_reshape(r, nd, dims, ord) ==
    IF r.err # "" \/ nd # 2 THEN r
    ELSE [r EXCEPT !.ret = Reshape(r.ret, dims, ord), !.shape = dims]

np_checked(chk, nd, arr, f, fv, ord) ==
    IF chk.err # "" THEN Raise(chk.err)
    ELSE np_reshape(run_func(chk.gidx, arr, chk.size_n, f, fv), nd, chk.dims, ord)

\* aggregate(group_idx, a, func, size, fill_value, order) of aggregate_numpy.py
aggregate_np(gi, nd, arr, f, sz, fv, ord) ==
    np_checked(input_checks(gi, nd, arr, sz, ord), nd, arr, f, fv, ord)

(***************************************************************************)
(* aggregate_weave.py                                                      *)
(***************************************************************************)
optimized_funcs ==
    {S_sum, S_min, S_max, S_amin, S_amax, S_mean, S_var, S_std, S_prod,
     S_nan \o S_sum, S_nan \o S_min, S_nan \o S_max, S_nan \o S_mean, S_nan \o S_var,
     S_nan \o S_std, S_nan \o S_prod,
     S_all, S_any, S_allnan, S_anynan,
     S_first, S_last, S_nan \o S_first, S_nan \o S_last}

c_iter_names == {S_sum, S_prod, S_all, S_any, S_last, S_allnan, S_anynan, S_max, S_min,
                 S_mean, S_std, S_var}

\* one pass of the loop body for element x of group w (0-based); st holds the
\* arrays ret, counter and means
c_iter(name, st, w, x) ==
    LET j == w + 1
        r == st.ret[j]
        touched == [st EXCEPT !.counter[j] = 0]
    IN  CASE name = S_sum -> [touched EXCEPT !.ret[j] = Add(r, x)]
          [] name = S_prod -> [touched EXCEPT !.ret[j] = Mul(r, x)]
          [] name = S_all -> IF x = IntV(0) THEN [touched EXCEPT !.ret[j] = IntV(0)] ELSE touched
          [] name = S_any -> IF x # IntV(0) THEN [touched EXCEPT !.ret[j] = IntV(1)] ELSE touched
          [] name = S_last -> [st EXCEPT !.ret[j] = x]
          [] name = S_allnan -> IF ~IsNaN(x) THEN [touched EXCEPT !.ret[j] = IntV(0)] ELSE touched
          [] name = S_anynan -> IF IsNaN(x) THEN [touched EXCEPT !.ret[j] = IntV(1)] ELSE touched
          [] name = S_max -> IF st.counter[j] = 1 THEN [touched EXCEPT !.ret[j] = x]
                             ELSE IF Lt(r, x) THEN [st EXCEPT !.ret[j] = x] ELSE st
          [] name = S_min -> IF st.counter[j] = 1 THEN [touched EXCEPT !.ret[j] = x]
                             ELSE IF Lt(x, r) THEN [st EXCEPT !.ret[j] = x] ELSE st
          [] name = S_mean -> [st EXCEPT !.counter[j] = @ + 1, !.ret[j] = Add(r, x)]
          [] name \in {S_std, S_var} ->
                [st EXCEPT !.counter[j] = @ + 1, !.means[j] = Add(@, x),
                           !.ret[j] = Add(r, Mul(x, x))]

\* the loop after the scan, for the reductions that have one
c_finish(name, st, fv, ddof) ==
    LET n == Len(st.ret)
    IN  CASE name = S_mean ->
              [st EXCEPT !.ret = [i \in 1..n |->
                  IF st.counter[i] # 0 THEN Div(st.ret[i], IntV(st.counter[i])) ELSE fv]]
          [] name \in {S_std, S_var} ->
              [st EXCEPT !.ret = [i \in 1..n |->
                  IF st.counter[i] # 0
                  THEN LET mean2 == Mul(st.means[i], st.means[i])
                           v == Div(Sub(st.ret[i], Div(mean2, IntV(st.counter[i]))),
                                    IntV(st.counter[i] - ddof))
                       IN  IF name = S_std THEN Sqrt(v) ELSE v
                  ELSE fv]]
          [] OTHER -> st

\* c_base / c_base_reverse with the iteration of funcname, under c_nan_iter when
\* nans is set
c_func(funcname, reverse, nans, gidx, data, st0, fv, ddof) ==
    LET L == Len(gidx)
        pos(k) == IF reverse THEN L + 1 - k ELSE k
        loop[k \in 0..L] ==
            IF k = 0 THEN st0
            ELSE IF nans /\ IsNaN(data[pos(k)]) THEN loop[k - 1]
            ELSE c_iter(funcname, loop[k - 1], gidx[pos(k)], data[pos(k)])
    IN  c_finish(funcname, loop[L], fv, ddof)

\* the keys of c_funcs that get_cfuncs builds
c_funcs_names ==
    c_iter_names
    \cup {S_nan \o nm : nm \in c_iter_names \ no_separate_nan_version}
    \cup {S_first, S_nan \o S_first}

\* c_funcs[name] as (funcname, reverse, nans)
c_funcs(name) ==
    IF name = S_first THEN [funcname |-> S_last, reverse |-> TRUE, nans |-> FALSE]
    ELSE IF name = S_nan \o S_first THEN [funcname |-> S_last, reverse |-> TRUE, nans |-> TRUE]
    ELSE IF name \in c_iter_names THEN [funcname |-> name, reverse |-> FALSE, nans |-> FALSE]
    ELSE [funcname |-> Strip3(name), reverse |-> FALSE, nans |-> TRUE]

\* a step count whose counter starts at 0
c_step_count_from0(gidx) ==
    LET L == Len(gidx)
        loop[k \in 0..L] ==
            IF k = 0 THEN [cmp_pos |-> 0, steps |-> 0]
            ELSE IF gidx[loop[k - 1].cmp_pos + 1] # gidx[k]
                 THEN [cmp_pos |-> k - 1, steps |-> loop[k - 1].steps + 1]
                 ELSE loop[k - 1]
    IN  IF L < 1 THEN 0 ELSE loop[L].steps

\* c_step_count: return_val after the loop; pass k of the loop is the C index
\* i = k - 1, cmp_pos is a C index
c_step_count(gidx) ==
    LET L == Len(gidx)
        loop[k \in 0..L] ==
            IF k = 0 THEN [cmp_pos |-> 0, steps |-> 1]
            ELSE IF gidx[loop[k - 1].cmp_pos + 1] # gidx[k]
                 THEN [cmp_pos |-> k - 1, steps |-> loop[k - 1].steps + 1]
                 ELSE loop[k - 1]
    IN  IF L < 1 THEN 0 ELSE loop[L].steps

\* step_count(group_idx)
step_count(gidx) == c_step_count(gidx)

\* indices[write_idx++] = i: a write at or beyond the end of the array goes
\* outside it
StepWrite(st, i) ==
    IF st.write_idx < Len(st.indices)
    THEN [st EXCEPT !.cmp_pos = i, !.indices[st.write_idx + 1] = i,
                    !.written = @ \cup {st.write_idx}, !.write_idx = @ + 1]
    ELSE [st EXCEPT !.cmp_pos = i, !.outside = TRUE, !.write_idx = @ + 1]

\* c_step_indices: the loop over i = 1 .. Lgroup_idx - 1 on the array st0.indices
c_step_indices(gidx, st0) ==
    LET L == Len(gidx)
        loop[i \in 0..Max2(L - 1, 0)] ==
            IF i = 0 THEN st0
            ELSE IF gidx[loop[i - 1].cmp_pos + 1] # gidx[i + 1] THEN StepWrite(loop[i - 1], i)
            ELSE loop[i - 1]
    IN  loop[Max2(L - 1, 0)]

\* indices = np.empty(ilen, int); indices[0] = 0; indices[-1] = group_idx.size:
\* empty holds whatever the memory held; written lists the entries assigned
StepArray(ilen, L, empty) ==
    [cmp_pos |-> 0, write_idx |-> 1,
     indices |-> [[Full(ilen, empty) EXCEPT ![1] = 0] EXCEPT ![ilen] = L],
     written |-> {0, ilen - 1}, outside |-> FALSE]

\* what step_indices returns; a write outside the array is undefined: the
\* process dies or goes on with the array as it is
StepReturn(st, outcome) ==
    IF st.outside /\ outcome = "crash"
    THEN [err |-> "segmentation fault", ret |-> <<>>, shape |-> <<>>, calls |-> <<>>,
          written |-> {}, outside |-> TRUE]
    ELSE [err |-> "", ret |-> st.indices, shape |-> <<Len(st.indices)>>, calls |-> <<>>,
          written |-> st.written, outside |-> st.outside]

\* step_indices(group_idx)
step_indices(gidx, empty, outcome) ==
    StepReturn(c_step_indices(gidx, StepArray(step_count(gidx) + 1, Len(gidx), empty)),
               outcome)

\* utils.get_func(func, aliasing, optimized_funcs): the name of an optimized
\* implementation, or the callable itself when func stands for none
get_func(f) ==
    LET nm == IF ~IsString(f) THEN AliasGet(f)
              ELSE LET low == Lower(f)
                   IN  IF StartsWithNan(low) THEN S_nan \o AliasGet(Strip3(low))
                       ELSE AliasGet(low)
    IN  IF ~IsString(nm) THEN [err |-> "", func |-> nm]
        ELSE IF nm \in optimized_funcs THEN [err |-> "", func |-> nm]
        ELSE IF StartsWithNan(nm) /\ Strip3(nm) \in no_separate_nan_version
            THEN [err |-> NoNanError, func |-> nm]
        ELSE [err |-> "NotImplementedError: No such function available", func |-> nm]

\* utils_numpy.check_dtype and check_fill_value: the boolean reductions have a
\* boolean result and need a boolean fill value
check_fill_value(name, fv) ==
    IsScalar(fv) /\ (name \in {S_all, S_any, S_allnan, S_anynan} => check_boolean(fv))

\* utils_numpy.input_validation: the checks and the flat index of the numpy backend
input_validation(gi, nd, arr, sz, ord) == input_checks(gi, nd, arr, sz, ord)

ZeroInit == {S_sum, S_any, S_anynan, S_nan \o S_sum}

OneInit == {S_prod, S_all, S_allnan, S_nan \o S_prod}

CountingFuncs == {S_std, S_var, S_nan \o S_std, S_nan \o S_var, S_mean, S_nan \o S_mean}

\* lines 269-284: ret, counter and means before the scan
weave_init(name, flat_size, fv) ==
    [ret |-> IF name \in ZeroInit THEN Full(flat_size, IntV(0))
             ELSE IF name \in OneInit THEN Full(flat_size, IntV(1))
             ELSE Full(flat_size, fv),
     counter |-> IF name \in CountingFuncs THEN Full(flat_size, 0) ELSE Full(flat_size, 1),
     means |-> Full(flat_size, IntV(0))]

\* lines 286-296: the inlined C loop of c_funcs[name]
weave_scan(cf, gidx, data, st0, fv) ==
    c_func(cf.funcname, cf.reverse, cf.nans, gidx, data, st0, fv, 0)

\* lines 298-301: the fill value of the sum-like and product-like reductions
weave_post(st, name, fv) ==
    IF (name \in ZeroInit /\ fv # IntV(0)) \/ (name \in OneInit /\ fv # IntV(1))
    THEN [i \in 1..Len(st.ret) |-> IF st.counter[i] = 1 THEN fv ELSE st.ret[i]]
    ELSE st.ret

\* line 305 reshapes to the size argument itself; reshape(None) leaves the array
\* as it is
weave_reshape(post, nd, sz, ord) ==
    IF nd > 1 /\ ~IsNone(sz)
    THEN [err |-> "", ret |-> Reshape(post, sz.seq, ord), shape |-> sz.seq, calls |-> <<>>]
    ELSE Ok(post)

weave_checked(chk, nd, arr, name, sz, fv, ord) ==
    IF chk.err # "" THEN Raise(chk.err)
    ELSE IF name \notin c_funcs_names THEN Raise("KeyError")
    ELSE weave_reshape(weave_post(weave_scan(c_funcs(name), chk.gidx, arr.data,
                                             weave_init(name, chk.size_n, fv), fv),
                                  name, fv),
                       nd, sz, ord)

\* lines 269-306: the optimized path for the resolved name
weave_run(gi, nd, arr, name, sz, fv, ord) ==
    IF ~check_fill_value(name, fv) THEN Raise("ValueError: fill_value not valid for dtype")
    ELSE weave_checked(input_validation(gi, nd, arr, sz, ord), nd, arr, name, sz, fv, ord)

\* lines 263-268: an optimized name goes on, a callable falls back to the numpy
\* backend, called without size and order
weave_resolved(fn, gi, nd, arr, sz, fv, ord) ==
    IF fn.err # "" THEN Raise(fn.err)
    ELSE IF ~IsString(fn.func) THEN aggregate_np(gi, nd, arr, fn.func, NoSize, fv, "F")
    ELSE weave_run(gi, nd, arr, fn.func, sz, fv, ord)

\* aggregate(group_idx, a, func, size, fill_value, order) of aggregate_weave.py
aggregate_weave(gi, nd, arr, f, sz, fv, ord) ==
    weave_resolved(get_func(f), gi, nd, arr, sz, fv, ord)

(***************************************************************************)
(* The calls the model makes.  Every specification draws the arguments of  *)
(* one call in its initial state; the backend's action runs the call.      *)
(***************************************************************************)
NoResult == [err |-> "(none)", ret |-> <<>>, shape |-> <<>>, calls |-> <<>>]

Lens == 1..MaxLen

\* the lengths of group_idx for step_count and step_indices
StepLens == 0..(MaxLen + 2)

\* what an entry of np.empty may hold
Uninitialised == {-1, 7}

SeqsOf(S, L) == [1..L -> S]

GroupIds == {0, 1, 2}

SparseIds == {0, 2}

Values == {IntV(-1), IntV(0), IntV(2), NaN}

ReductionNames == {S_sum, S_prod, S_min, S_max, S_all, S_any, S_first, S_last,
                   S_mean, S_var, S_std, S_allnan, S_anynan}

NanBases == {S_sum, S_prod, S_min, S_max, S_mean, S_var, S_std}

NanReductionNames == {S_nan \o nm : nm \in NanBases}

\* nan-prefixed names of reductions that have no nan- version: plain, mixed case,
\* and through an alias
NoNanNames == {S_nan \o S_first, S_nan \o S_last, S_nan \o S_all,
               <<"N","a","N","a","n","y">>, S_nan \o S_and, S_nan \o S_sort}

GroupingNames == {S_array, S_sort, S_rsort}

Callables == {func_arbitrary, func_preserve_order}

\* a call with a 1-d group_idx and a 1-d a
Call1D(B, F, Ids, Vs, Sz, Fv) ==
    /\ backend \in B
    /\ func \in F
    /\ ndim_idx = 1
    /\ \E L \in Lens :
          /\ group_idx \in SeqsOf(Ids, L)
          /\ \E data \in SeqsOf(Vs, L) : a = Arr1(data)
    /\ size \in Sz
    /\ fill_value \in Fv
    /\ order = "C"
    /\ pc = "call"
    /\ result = NoResult

\* a call with a 1-d group_idx and a scalar a
CallScalar(B, F, Ids, Vs, Sz, Fv) ==
    /\ backend \in B
    /\ func \in F
    /\ ndim_idx = 1
    /\ \E L \in Lens : group_idx \in SeqsOf(Ids, L)
    /\ \E x \in Vs : a = Arr0(x)
    /\ size \in Sz
    /\ fill_value \in Fv
    /\ order = "C"
    /\ pc = "call"
    /\ result = NoResult

\* a call with two keys: group_idx has one row per key
CallND(B, F, Ids1, Ids2, Vs, Sz, Fv) ==
    /\ backend \in B
    /\ func \in F
    /\ ndim_idx = 2
    /\ \E L \in Lens :
          /\ \E r1 \in SeqsOf(Ids1, L), r2 \in SeqsOf(Ids2, L) : group_idx = <<r1, r2>>
          /\ \E data \in SeqsOf(Vs, L) : a = Arr1(data)
    /\ size \in Sz
    /\ fill_value \in Fv
    /\ order \in {"C", "F"}
    /\ pc = "call"
    /\ result = NoResult

AggregateNumpy ==
    /\ pc = "call"
    /\ backend = "numpy"
    /\ result' = aggregate_np(group_idx, ndim_idx, a, func, size, fill_value, order)
    /\ pc' = "done"
    /\ UNCHANGED <<backend, group_idx, ndim_idx, a, func, size, fill_value, order>>

AggregateWeave ==
    /\ pc = "call"
    /\ backend = "weave"
    /\ result' = aggregate_weave(group_idx, ndim_idx, a, func, size, fill_value, order)
    /\ pc' = "done"
    /\ UNCHANGED <<backend, group_idx, ndim_idx, a, func, size, fill_value, order>>

Next == AggregateNumpy \/ AggregateWeave

\* a call of one of the helpers of the contiguous case
CallStep(F, Ids) ==
    /\ backend = "weave"
    /\ func \in F
    /\ ndim_idx = 1
    /\ \E L \in StepLens : group_idx \in SeqsOf(Ids, L)
    /\ a = Arr1(<<>>)
    /\ size = NoSize
    /\ fill_value = IntV(0)
    /\ order = "C"
    /\ pc = "call"
    /\ result = NoResult

StepCount ==
    /\ pc = "call"
    /\ func = Fn("step_count")
    /\ result' = [err |-> "", ret |-> step_count(group_idx), shape |-> <<>>, calls |-> <<>>]
    /\ pc' = "done"
    /\ UNCHANGED <<backend, group_idx, ndim_idx, a, func, size, fill_value, order>>

StepIndices ==
    /\ pc = "call"
    /\ func = Fn("step_indices")
    /\ \E empty \in Uninitialised, outcome \in {"crash", "silent"} :
          result' = step_indices(group_idx, empty, outcome)
    /\ pc' = "done"
    /\ UNCHANGED <<backend, group_idx, ndim_idx, a, func, size, fill_value, order>>

NextSteps == StepCount \/ StepIndices

NextNumpy == AggregateNumpy

\* Spec: 1-d calls of every kind of func on both backends, and calls of the numpy
\* backend with a scalar a.
Init ==
    \/ Call1D({"numpy", "weave"},
              ReductionNames \cup NanReductionNames \cup NoNanNames \cup Callables
                \cup {NpSum, NpNanmax, S_plus, S_median},
              SparseIds, Values, {NoSize, ScalarSize(4)}, {IntV(0), IntV(1), NaN})
    \/ CallScalar({"numpy"}, {S_sum, S_nan \o S_sum, S_nan \o S_first}, GroupIds,
                  {IntV(2), NaN}, {NoSize}, {IntV(0)})

Spec == Init /\ [][Next]_vars

\* SpecFill: every kind of func with every kind of fill value, on both backends.
InitFill ==
    \/ Call1D({"numpy", "weave"},
              ReductionNames \cup NanReductionNames \cup GroupingNames \cup Callables
                \cup {S_nan \o S_first, NpNanmax},
              SparseIds, {IntV(2), NaN}, {NoSize, ScalarSize(4)},
              {IntV(0), IntV(1), NaN, IntV(dmax), IntV(dmin)})
    \/ Call1D({"numpy"}, GroupingNames, SparseIds, {IntV(2), NaN}, {NoSize, ScalarSize(4)},
              {SubArr(<<>>), SubArr(<<IntV(0)>>)})

SpecFill == InitFill /\ [][Next]_vars

\* SpecNan: the nan- reductions on both backends.
InitNan ==
    Call1D({"numpy", "weave"}, NanReductionNames, SparseIds, {IntV(-1), IntV(2), NaN},
           {NoSize, ScalarSize(4)}, {IntV(0), IntV(1), NaN})

SpecNan == InitNan /\ [][Next]_vars

\* SpecIndex: calls of the numpy backend whose group ids may be out of range.
InitIndex ==
    \/ Call1D({"numpy"}, {S_sum, S_last}, {-1, 0, 1, 2, 3}, {IntV(2)},
              {NoSize, ScalarSize(2), ScalarSize(3)}, {IntV(0)})
    \/ CallND({"numpy"}, {S_sum}, {-1, 0, 1, 2}, {0, 1, 2, 3}, {IntV(2)},
              {NoSize, SeqSize(<<2, 3>>)}, {IntV(0)})

SpecIndex == InitIndex /\ [][NextNumpy]_vars

\* SpecCallable: calls of the numpy backend with a callable that no name stands for.
InitCallable ==
    Call1D({"numpy"}, Callables, GroupIds, {IntV(-1), IntV(2), NaN}, {NoSize, ScalarSize(4)},
           {IntV(0), IntV(5), NaN})

SpecCallable == InitCallable /\ [][NextNumpy]_vars

\* SpecND: calls of the numpy backend with two keys, all in range.
InitND ==
    CallND({"numpy"}, {S_sum, S_last, S_array}, {0, 1}, SparseIds,
           {IntV(-1), IntV(2)}, {NoSize, SeqSize(<<3, 4>>)}, {IntV(5)})

SpecND == InitND /\ [][NextNumpy]_vars

\* SpecGroup: array, sort and rsort on the numpy backend.
InitGroup ==
    Call1D({"numpy"}, GroupingNames, GroupIds, Values, {NoSize, ScalarSize(4)},
           {IntV(0), NaN, SubArr(<<>>), SubArr(<<IntV(0)>>)})

SpecGroup == InitGroup /\ [][NextNumpy]_vars

\* SpecReverse: last on both backends, with and without a size.
InitReverse ==
    Call1D({"numpy", "weave"}, {S_last}, GroupIds, {IntV(-1), IntV(2), NaN},
           {NoSize, ScalarSize(4)}, {IntV(0), IntV(5), NaN})

SpecReverse == InitReverse /\ [][Next]_vars

\* the reductions a scalar a is said to be broadcast for
ScalarNames == {S_sum, S_prod, S_min, S_max, S_first, S_last, S_mean, S_var, S_std,
                S_array, S_sort, S_rsort}

\* SpecScalar: these reductions on the numpy backend with a scalar a.
InitScalar ==
    CallScalar({"numpy"}, ScalarNames, GroupIds,
               {IntV(0), IntV(1), IntV(2), NaN},
               {NoSize, ScalarSize(2), ScalarSize(4)}, {IntV(0), IntV(1)})

SpecScalar == InitScalar /\ [][NextNumpy]_vars

ComplexValues == {[re |-> IntV(0), im |-> IntV(1)], [re |-> IntV(2), im |-> IntV(-1)],
                  [re |-> IntV(2), im |-> IntV(1)]}

\* SpecComplex: sort and rsort on the numpy backend, on real and on complex values.
InitComplex ==
    \/ Call1D({"numpy"}, {S_sort, S_rsort}, GroupIds, {IntV(-1), IntV(0), IntV(2)},
              {NoSize, ScalarSize(4)}, {IntV(0), SubArr(<<>>)})
    \/ Call1D({"numpy"}, {S_sort, S_rsort}, GroupIds, ComplexValues,
              {NoSize, ScalarSize(4)}, {IntV(0), SubArr(<<>>)})

SpecComplex == InitComplex /\ [][NextNumpy]_vars

\* SpecSteps: step_count and step_indices on every short group_idx.
InitSteps == CallStep({Fn("step_count"), Fn("step_indices")}, GroupIds)

SpecSteps == InitSteps /\ [][NextSteps]_vars

(***************************************************************************)
(* What the claims speak of: the call's arguments as the caller gave them, *)
(* and reductions written as a loop over one group's values.               *)
(***************************************************************************)
Returned == pc = "done" /\ result.err = ""

\* the output size of a 1-d call: the given size, or max(group_idx) + 1
ExpectedSize == IF IsNone(size) THEN SeqMax(group_idx) + 1 ELSE size.scalar

\* func is a nan-prefixed name, or a callable that stands for one
NanAware == func = NpNanmax \/ (IsString(func) /\ StartsWithNan(Lower(func)))

\* the values of group g of a 1-d call, in input order
GroupSeq(g) ==
    LET f[i \in 0..Len(group_idx)] ==
            IF i = 0 THEN <<>>
            ELSE IF group_idx[i] = g THEN Append(f[i - 1], a.data[i]) ELSE f[i - 1]
    IN  f[Len(group_idx)]

\* the same, without the NaN values when func is nan-aware
Survivors(g) == SelectSeq(GroupSeq(g), LAMBDA x : ~(NanAware /\ IsNaN(x)))

RefSum(s) == LET f[i \in 0..Len(s)] == IF i = 0 THEN IntV(0) ELSE Add(f[i - 1], s[i]) IN f[Len(s)]

RefProd(s) == LET f[i \in 0..Len(s)] == IF i = 0 THEN IntV(1) ELSE Mul(f[i - 1], s[i]) IN f[Len(s)]

RefMin(s) == CHOOSE m \in Range(s) : \A x \in Range(s) : ~Lt(x, m)

RefMax(s) == CHOOSE m \in Range(s) : \A x \in Range(s) : ~Lt(m, x)

Reference(name, s) ==
    CASE name = S_sum -> RefSum(s)
      [] name = S_prod -> RefProd(s)
      [] name = S_min -> RefMin(s)
      [] name = S_max -> RefMax(s)
      [] name = S_all -> BoolV(\A i \in 1..Len(s) : s[i] # IntV(0))
      [] name = S_any -> BoolV(\E i \in 1..Len(s) : s[i] # IntV(0))
      [] name = S_first -> s[1]
      [] name = S_last -> s[Len(s)]
      [] name = S_mean -> Div(RefSum(s), IntV(Len(s)))
      [] name = S_array -> SubArr(s)

(***************************************************************************)
(* C1                                                                      *)
(***************************************************************************)
\* C1: a 1-d call that returns, of any kind of func on either backend, returns
\* exactly ExpectedSize entries: the given size, or max(group_idx) + 1 when no
\* size is given.
C1_SizeHonoured ==
    (Returned /\ ndim_idx = 1) => result.shape = <<ExpectedSize>>

(***************************************************************************)
(* C2                                                                      *)
(***************************************************************************)
\* the positions in [0, size) that no pair maps to, after NaN stripping
EmptyPositions == {g \in 0..(ExpectedSize - 1) : Survivors(g) = <<>>}

\* C2: after a call that returns, every position in [0, size) that no element of
\* group_idx maps to (after NaN stripping for the nan-aware reductions) is in the
\* output and holds exactly fill_value.
C2_EmptyHoldFill ==
    Returned =>
        \A g \in EmptyPositions :
            (g + 1) \in DOMAIN result.ret /\ result.ret[g + 1] = fill_value

(***************************************************************************)
(* C3                                                                      *)
(***************************************************************************)
C3Names == {S_sum, S_prod, S_min, S_max, S_all, S_any, S_first, S_last, S_mean}

IntegerValues == a.ndim = 1 /\ \A i \in 1..Len(a.data) : a.data[i].d = 1

\* C3: on integer values, whatever the fill value, every position that receives
\* an element holds the reference reduction of exactly the elements of its group.
C3_NonEmptyHoldReduction ==
    (Returned /\ func \in C3Names /\ IntegerValues) =>
        \A g \in 0..(ExpectedSize - 1) :
            GroupSeq(g) # <<>> =>
                (g + 1) \in DOMAIN result.ret
                /\ result.ret[g + 1] = Reference(func, GroupSeq(g))

(***************************************************************************)
(* C4                                                                      *)
(***************************************************************************)
\* some group identifier is negative or at least the declared size of its key
IdxOutOfRange ==
    IF ndim_idx = 1
    THEN \E i \in 1..Len(group_idx) :
            group_idx[i] < 0 \/ (~IsNone(size) /\ group_idx[i] >= size.scalar)
    ELSE \E d \in 1..Len(group_idx) : \E i \in 1..Len(group_idx[d]) :
            group_idx[d][i] < 0 \/ (~IsNone(size) /\ group_idx[d][i] >= size.seq[d])

C5Remainders == {S_first, S_last, S_all, S_any, S_array, S_sort, S_rsort, S_allnan, S_anynan}

\* C5: on either backend a call with a nan-prefixed name (any case) whose
\* remainder, after alias resolution, is one of C5Remainders, or with a scalar a,
\* is rejected: it raises and no result is computed for it.
C5_NoNanVersionRejected ==
    (pc = "done" /\ IsString(func) /\ StartsWithNan(Lower(func))
        /\ (AliasGet(Strip3(Lower(func))) \in C5Remainders \/ a.ndim = 0)) =>
        result.err # "" /\ result.ret = <<>>

(***************************************************************************)
(* C6                                                                      *)
(***************************************************************************)
\* the entries of s whose value in a is not NaN, in their original order
Kept(s) ==
    LET f[i \in 0..Len(s)] ==
            IF i = 0 THEN <<>>
            ELSE IF IsNaN(a.data[i]) THEN f[i - 1] ELSE Append(f[i - 1], s[i])
    IN  f[Len(s)]

\* the call of the base reduction X on the pairs that are kept, with the output
\* size of the original call
StrippedCall ==
    IF backend = "numpy"
    THEN aggregate_np(Kept(group_idx), 1, Arr1(Kept(a.data)), Strip3(func),
                      ScalarSize(ExpectedSize), fill_value, order)
    ELSE aggregate_weave(Kept(group_idx), 1, Arr1(Kept(a.data)), Strip3(func),
                         ScalarSize(ExpectedSize), fill_value, order)

\* C6: a nan- reduction returns what its base reduction returns on the pairs whose
\* value is not NaN, with the size taken from the original group_idx: the output
\* has ExpectedSize entries and a group whose values are all NaN holds fill_value.
C6_NanEquivalent ==
    (pc = "done" /\ func \in NanReductionNames) =>
        /\ result.err = ""
        /\ result = StrippedCall
        /\ Len(result.ret) = ExpectedSize
        /\ \A g \in 0..(ExpectedSize - 1) :
              Survivors(g) = <<>> => result.ret[g + 1] = fill_value

\* the highest group holds only NaN and no size is given: the output keeps its position
C6_Witness ==
    /\ pc = "done"
    /\ backend = "weave"
    /\ func = S_nan \o S_mean
    /\ IsNone(size)
    /\ group_idx = <<2, 0, 0>>
    /\ IsNaN(a.data[1]) /\ ~IsNaN(a.data[2]) /\ IsNaN(a.data[3])
    /\ Len(result.ret) = 3
    /\ result.ret[3] = fill_value

(***************************************************************************)
(* C7                                                                      *)
(***************************************************************************)
C7Funcs ==
    {S_sum, S_min, S_max, S_prod, S_all, S_any, S_mean, S_std,
     S_nan \o S_sum, S_nan \o S_min, S_nan \o S_max, S_nan \o S_mean, S_nan \o S_std,
     S_anynan, S_allnan} \cup Callables

\* the same call on the other backend
OtherBackend ==
    IF backend = "numpy"
    THEN aggregate_weave(group_idx, ndim_idx, a, func, size, fill_value, order)
    ELSE aggregate_np(group_idx, ndim_idx, a, func, size, fill_value, order)

\* C7: for the functions the backends are compared on, and for callables, a call
\* returns on one backend exactly when it returns on the other, and then with the
\* same result.
C7_BackendsAgree ==
    (pc = "done" /\ func \in C7Funcs /\ a.ndim = 1) =>
        /\ (result.err = "") = (OtherBackend.err = "")
        /\ result.err = "" => result.ret = OtherBackend.ret /\ result.shape = OtherBackend.shape

(***************************************************************************)
(* C8                                                                      *)
(***************************************************************************)
NonEmptyGroups == {g \in 0..(ExpectedSize - 1) : GroupSeq(g) # <<>>}

\* C8: a callable is invoked exactly once for each non-empty group, with the
\* group's values in input order, and never for an empty group; the output holds
\* its result at a non-empty group's position and fill_value at an empty one's.
C8_CallablePerGroup ==
    (pc = "done" /\ func \in Callables) =>
        /\ result.err = ""
        /\ Len(result.calls) = Cardinality(NonEmptyGroups)
        /\ Range(result.calls) = {<<g, GroupSeq(g)>> : g \in NonEmptyGroups}
        /\ Len(result.ret) = ExpectedSize
        /\ \A g \in 0..(ExpectedSize - 1) :
              result.ret[g + 1] = IF g \in NonEmptyGroups THEN CallFunc(func, GroupSeq(g))
                                  ELSE fill_value

\* an order-sensitive callable on a group whose ids are not contiguous, next to an
\* empty group
C8_Witness ==
    /\ pc = "done"
    /\ func = func_preserve_order
    /\ group_idx = <<2, 0, 2>>
    /\ a.data[1] = IntV(2) /\ a.data[3] = IntV(-1)
    /\ result.calls = <<<<0, <<a.data[2]>>>>, <<2, <<IntV(2), IntV(-1)>>>>>>
    /\ result.ret[2] = fill_value
    /\ result.ret[3] = IntV(3)

(***************************************************************************)
(* C9                                                                      *)
(***************************************************************************)
\* the declared size of each key dimension, or the inferred one
KeyDims ==
    IF IsNone(size) THEN [d \in 1..Len(group_idx) |-> SeqMax(group_idx[d]) + 1] ELSE size.seq

\* the cumulative products of the sizes: last key fastest for "C", first for "F"
KeyStrides == IF order = "C" THEN <<KeyDims[2], 1>> ELSE <<1, KeyDims[1]>>

KeyFlat(k) == k[1] * KeyStrides[1] + k[2] * KeyStrides[2]

AllKeys == {<<k1, k2>> : k1 \in 0..(KeyDims[1] - 1), k2 \in 0..(KeyDims[2] - 1)}

\* the values whose key tuple is k, in input order
KeySeq(k) ==
    LET f[i \in 0..Len(a.data)] ==
            IF i = 0 THEN <<>>
            ELSE IF <<group_idx[1][i], group_idx[2][i]>> = k THEN Append(f[i - 1], a.data[i])
            ELSE f[i - 1]
    IN  f[Len(a.data)]

\* C9: with two keys and either order, the flat index is the sum of index times
\* stride, distinct in-range key tuples have distinct flat indices in
\* [0, prod(size)), the result has the declared shape, and its entry at a key
\* tuple is the reduction of exactly the values with that key tuple (fill_value
\* when there is none), so it is the same for both orders.
C9_MultiKey ==
    (pc = "done" /\ ndim_idx = 2) =>
        /\ result.err = ""
        /\ input_checks(group_idx, ndim_idx, a, size, order).gidx
              = [i \in 1..Len(a.data) |-> KeyFlat(<<group_idx[1][i], group_idx[2][i]>>)]
        /\ \A k \in AllKeys : KeyFlat(k) \in 0..(KeyDims[1] * KeyDims[2] - 1)
        /\ \A k1 \in AllKeys, k2 \in AllKeys : k1 # k2 => KeyFlat(k1) # KeyFlat(k2)
        /\ result.shape = KeyDims
        /\ DOMAIN result.ret = AllKeys
        /\ \A k \in AllKeys :
              result.ret[k] = IF KeySeq(k) = <<>> THEN fill_value
                              ELSE Reference(func, KeySeq(k))

\* a column-major call in which one key tuple appears twice, apart, in a declared
\* shape larger than the keys need
C9_Witness ==
    /\ pc = "done"
    /\ ndim_idx = 2
    /\ order = "F"
    /\ size = SeqSize(<<3, 4>>)
    /\ group_idx = <<<<1, 0, 1>>, <<2, 0, 2>>>>
    /\ func = S_last
    /\ a.data[1] # a.data[3]
    /\ result.ret[<<1, 2>>] = a.data[3]
    /\ result.ret[<<2, 3>>] = fill_value

(***************************************************************************)
(* C10                                                                     *)
(***************************************************************************)
Count(s, x) == Cardinality({i \in 1..Len(s) : s[i] = x})

IsPermutation(s, t) == Len(s) = Len(t) /\ \A x \in Range(s) \cup Range(t) : Count(s, x) = Count(t, x)

Ascending(s) == \A i \in 1..Len(s), j \in 1..Len(s) : i < j => ~Lt(s[j], s[i])

Descending(s) == \A i \in 1..Len(s), j \in 1..Len(s) : i < j => ~Lt(s[i], s[j])

\* C10: array, sort and rsort reject a fill value that is a non-empty sequence;
\* otherwise the result has one entry per group position, a non-empty group's
\* entry is a permutation of exactly its values (in input order for array,
\* ascending for sort, descending for rsort), and an empty group's entry is the
\* fill value.
C10_GroupsPartition ==
    (pc = "done" /\ func \in GroupingNames) =>
        IF ~IsScalar(fill_value) /\ Len(fill_value.s) > 0 THEN result.err # ""
        ELSE /\ result.err = ""
             /\ Len(result.ret) = ExpectedSize
             /\ \A g \in 0..(ExpectedSize - 1) :
                   IF GroupSeq(g) = <<>> THEN result.ret[g + 1] = fill_value
                   ELSE /\ "s" \in DOMAIN result.ret[g + 1]
                        /\ IsPermutation(result.ret[g + 1].s, GroupSeq(g))
                        /\ func = S_array => result.ret[g + 1].s = GroupSeq(g)
                        /\ func = S_sort => Ascending(result.ret[g + 1].s)
                        /\ func = S_rsort => Descending(result.ret[g + 1].s)

(***************************************************************************)
(* C11                                                                     *)
(***************************************************************************)
Backwards(s) == [i \in 1..Len(s) |-> s[Len(s) - i + 1]]

\* the call of f on the same backend with group_idx and a both reversed
ReversedCall(f) ==
    IF backend = "numpy"
    THEN aggregate_np(Backwards(group_idx), 1, Arr1(Backwards(a.data)), f, size,
                      fill_value, order)
    ELSE aggregate_weave(Backwards(group_idx), 1, Arr1(Backwards(a.data)), f, size,
                         fill_value, order)

\* C11: on either backend, for every valid 1-d input, fill value and size, a call
\* of last returns, and returns what first returns on the reversed group_idx and
\* the reversed values.
C11_ReverseSymmetry ==
    (pc = "done" /\ func = S_last) =>
        /\ result.err = ""
        /\ result = ReversedCall(S_first)

\* a group with two different values around another group, next to an empty
\* position: last and the reversed first both hold the later value
C11_Witness ==
    /\ pc = "done"
    /\ backend = "weave"
    /\ func = S_last
    /\ group_idx = <<0, 2, 0>>
    /\ a.data[1] # a.data[3]
    /\ result.ret[1] = a.data[3]
    /\ ReversedCall(S_first).ret[1] = a.data[3]
    /\ result.ret[2] = fill_value

(***************************************************************************)
(* C12                                                                     *)
(***************************************************************************)
\* Q: the sum of the squares of a group's values
RefSumSq(s) ==
    LET f[i \in 0..Len(s)] == IF i = 0 THEN IntV(0) ELSE Add(f[i - 1], Mul(s[i], s[i]))
    IN  f[Len(s)]

\* mean(x^2) - mean(x)^2 = Q/n - (S/n)^2
PopVar(S, Q, n) == Sub(Div(Q, IntV(n)), Mul(Div(S, IntV(n)), Div(S, IntV(n))))

\* sum((x - S/n)^2) / n
TwoPass(s, S, n) ==
    LET f[i \in 0..n] ==
            IF i = 0 THEN IntV(0)
            ELSE Add(f[i - 1], Mul(Sub(s[i], Div(S, IntV(n))), Sub(s[i], Div(S, IntV(n)))))
    IN  Div(f[n], IntV(n))

\* (Q - S*S/n) / (n - ddof)
OnePass(S, Q, n, ddof) == Div(Sub(Q, Div(Mul(S, S), IntV(n))), IntV(n - ddof))

\* the square of a result: a symbolic root squares to its radicand
Squared(x) == IF "r" \in DOMAIN x THEN [n |-> x.n, d |-> x.d] ELSE Mul(x, x)

\* the value at a group's position is the variance v (var) or squares to it (std)
HoldsVariance(x, v) == IF func = S_var THEN x = v ELSE Squared(x) = v

\* C12: on bounded integer values, var holds at every non-empty group the
\* population variance Q/n - (S/n)^2, which the two-pass form and the one-pass
\* form with ddof = 0 both equal, and std holds the value whose square is that
\* variance; this on either backend and whatever the fill value.
C12_VarRelation ==
    (pc = "done" /\ func \in {S_var, S_std} /\ IntegerValues) =>
        /\ result.err = ""
        /\ \A g \in 0..(ExpectedSize - 1) :
              GroupSeq(g) # <<>> =>
                  /\ TwoPass(GroupSeq(g), RefSum(GroupSeq(g)), Len(GroupSeq(g)))
                        = PopVar(RefSum(GroupSeq(g)), RefSumSq(GroupSeq(g)), Len(GroupSeq(g)))
                  /\ OnePass(RefSum(GroupSeq(g)), RefSumSq(GroupSeq(g)), Len(GroupSeq(g)), 0)
                        = PopVar(RefSum(GroupSeq(g)), RefSumSq(GroupSeq(g)), Len(GroupSeq(g)))
                  /\ (g + 1) \in DOMAIN result.ret
                  /\ HoldsVariance(result.ret[g + 1],
                                   PopVar(RefSum(GroupSeq(g)), RefSumSq(GroupSeq(g)),
                                          Len(GroupSeq(g))))

(***************************************************************************)
(* C13                                                                     *)
(***************************************************************************)
\* the same call with len(group_idx) copies of the scalar in place of it
BroadcastCall ==
    aggregate_np(group_idx, ndim_idx, Arr1(Full(Len(group_idx), a.data[1])), func, size,
                 fill_value, order)

\* C13: a call of sum, prod, min, max, first, last, mean, var, std, array, sort
\* or rsort with a scalar a and a valid group_idx is not rejected and returns
\* what the call with len(group_idx) copies of the scalar returns, whatever size
\* and fill_value, also when group_idx is longer than the output.
C13_ScalarBroadcast ==
    (pc = "done" /\ a.ndim = 0 /\ func \in ScalarNames /\ ~IdxOutOfRange) =>
        /\ result.err = ""
        /\ result = BroadcastCall

(***************************************************************************)
(* C14                                                                     *)
(***************************************************************************)
\* C14: sort and rsort on values whose element type is complex fail and return
\* no result; on real values the check of the element type never rejects the
\* call.
C14_ComplexRejected ==
    (pc = "done" /\ func \in {S_sort, S_rsort}) =>
        IF a.dtype = "complex128" THEN result.err # "" /\ result.ret = <<>>
        ELSE result.err # ComplexError

(***************************************************************************)
(* C15                                                                     *)
(***************************************************************************)
\* the positions i (0-based, 0 < i < L) where the group id changes
ChangePositions == {i \in 1..(Len(group_idx) - 1) : group_idx[i + 1] # group_idx[i]}

\* the number of maximal runs of equal adjacent ids
RunCount == IF Len(group_idx) = 0 THEN 0 ELSE Cardinality(ChangePositions) + 1

\* C15: step_count returns 0 for an empty group_idx and otherwise the number of
\* maximal runs of equal adjacent ids; step_indices returns a strictly
\* increasing sequence of step_count + 1 positions that starts with 0, ends with
\* the length of group_idx and holds in between exactly the positions where the
\* id changes; every entry of the array is written and no write goes outside it.
C15_StepsExact ==
    pc = "done" =>
        /\ result.err = ""
        /\ func = Fn("step_count") => result.ret = RunCount
        /\ func = Fn("step_indices") =>
              /\ Len(result.ret) = RunCount + 1
              /\ result.ret[1] = 0
              /\ result.ret[Len(result.ret)] = Len(group_idx)
              /\ \A i \in 1..Len(result.ret), j \in 1..Len(result.ret) :
                    i < j => result.ret[i] < result.ret[j]
              /\ {result.ret[k] : k \in 2..(Len(result.ret) - 1)} = ChangePositions
              /\ result.written = 0..(Len(result.ret) - 1)
              /\ ~result.outside

\* an id that comes back after another one: three runs, two changes
C15_Witness ==
    /\ pc = "done"
    /\ func = Fn("step_indices")
    /\ group_idx = <<2, 2, 0, 2>>
    /\ result.ret = <<0, 2, 3, 4>>

====
